---- MODULE Spec2Model ----
(***************************************************************************)
(* Model of plenario's sensor-network API core                             *)
(* (plenario/sensor_network/api/sensor_networks.py, sensor_validator.py):  *)
(*   - the chunked export pipeline: get_observation_datadump, store_chunk  *)
(*   - the metadata filter chain:   metadata, filter_meta                  *)
(***************************************************************************)
EXTENDS Integers, Sequences, FiniteSets, TLC

(***************************************************************************)
(* Bounds of the model.                                                    *)
(***************************************************************************)
\* rows a single feature table contributes to an export
MaxRows == 3
\* the code fixes chunk_size = 1000.0; the model runs it for 1..MaxChunkSize
MaxChunkSize == 2

\* nodes a population holds, over all networks
MaxNodes == 2
\* observation rows a feature table holds
MaxObs == 2
\* datetimes of observations and window bounds run over 0..MaxTime
MaxTime == 2

\* TTL of the cleanup-suppression flag, set_flag(..., True, 10800)
SuppressTTL == 10800

\* job tickets (jobsframework_ticket); idle tickets were never enqueued
Tickets == {"t1", "t2"}
\* feature tables an export can stream, in the order get_observation_queries
\* lists them
TableNames == <<"temperature", "humidity">>

VARIABLES
    chunk_size,    \* chunk_size of get_observation_datadump
    queries,       \* ticket -> observation_queries: <<[name, count]>>
    pc,            \* ticket -> position of the run
    ret,           \* ticket -> call site store_chunk returns to
    row_count,     \* ticket -> row_count of the count pass
    chunk_count,   \* ticket -> declared total number of parts
    chunk_number,  \* ticket -> number of the next part
    chunk,         \* ticket -> row buffer (each row by its feature_of_interest)
    features,      \* ticket -> feature names collected for the summary
    qi,            \* ticket -> index of the table being streamed
    ri,            \* ticket -> rows already read from that table
    local_status,  \* ticket -> the status dict store_chunk fetched
    pending,       \* ticket -> objects added to the worker's session, uncommitted
    dumps,         \* committed rows of plenario_datadump
    status,        \* ticket -> job status record of the job store
    flag,          \* ticket -> '<ticket>_suppresscleanup' flag of the job store
    flag_calls,    \* ticket -> number of set_flag calls made for the ticket
    rollbacks,     \* ticket -> number of session.rollback() calls
    err,           \* ticket -> the call whose exception ended the run
    networks,      \* rows of sensor__network_metadata (NetworkMeta)
    nodes,         \* rows of sensor__node_metadata (NodeMeta)
    sensors,       \* rows of sensor__sensors (Sensor)
    feats,         \* rows of sensor__features_of_interest (FeatureOfInterest)
    metadata_args, \* the arguments of the last metadata() call
    result,        \* what that call returned or raised
    table_rows,    \* the rows of the feature table observation_query is given
    obs_args,      \* args.data of the last observation_query call
    obs_query,     \* the query it built, or the exception it raised
    fetched,       \* the rows the built query returned
    api_call,      \* the last endpoint called and its raw arguments
    validated,     \* validated_args of that call: data and errors
    api_response,  \* the response of that endpoint
    core_calls     \* the core components that call reached

exportVars == <<chunk_size, queries, pc, ret, row_count, chunk_count,
                chunk_number, chunk, features, qi, ri, local_status, pending,
                dumps, status, flag, flag_calls, rollbacks, err>>

metaVars == <<networks, nodes, sensors, feats, metadata_args, result>>

queryVars == <<table_rows, obs_args, obs_query, fetched>>

apiVars == <<api_call, validated, api_response, core_calls>>

vars == <<exportVars, metaVars, queryVars, apiVars>>

(***************************************************************************)
(* Helpers                                                                 *)
(***************************************************************************)
RECURSIVE SumCounts(_)
\* row_count += fast_count(query), over observation_queries
SumCounts(qs) ==
    IF qs = <<>> THEN 0 ELSE Head(qs).count + SumCounts(Tail(qs))

\* a total computed with integer division, rounding down
FloorDiv(n, d) == n \div d

\* math.ceil(row_count / chunk_size), chunk_size a float
CeilDiv(n, d) == (n + d - 1) \div d

\* DataDump(id, request, part, total, data): a part row carries its rows, the
\* summary row (part 0) carries the feature list of its meta_chunk
DataDump(request, part, total, rows, meta) ==
    [request |-> request, part |-> part, total |-> total,
     rows |-> rows, meta |-> meta]

\* the status record before any progress was reported
\* (error: a failure indication; nothing in this code writes one)
NoProgress == [has_progress |-> FALSE, done |-> 0, total |-> 0, error |-> FALSE]

\* a progress record written with its two numbers exchanged
WithProgressSwapped(st, done, total) ==
    [st EXCEPT !.has_progress = TRUE, !.done = total, !.total = done]

\* status["progress"] = {"done": chunk_number, "total": chunk_count}
WithProgress(st, done, total) ==
    [st EXCEPT !.has_progress = TRUE, !.done = done, !.total = total]

NoFlag == [set |-> FALSE, ttl |-> 0]

\* a handler that re-raises without rolling the session back
RollbackForgotten(p) == p

\* "except Exception as e: session.rollback()": the session drops what was added
Rollback(p) == {}


(***************************************************************************)
(* The metadata store                                                      *)
(***************************************************************************)
NetworkNames == {"array_of_things", "net_b"}
\* node ids are unique within their network only
NodeIds == {"004e", "005a"}
\* point locations of nodes
Locations == {1, 2}
\* a "feature.property" reference is the sequence of its pieces, "." included
SensorTable ==
    {[name |-> "tmp112",
      observed_properties |-> {<<"temperature", ".", "temperature">>}],
     [name |-> "hih4030",
      observed_properties |-> {<<"humidity", ".", "humidity">>,
                               <<"temperature", ".", "internal">>}]}
SensorNames == {s.name : s \in SensorTable}
FeatureTable ==
    {[name |-> "temperature"], [name |-> "humidity"], [name |-> "gas"]}
\* where a node of a given id stands
LocationOf(id) == IF id = "004e" THEN 1 ELSE 2

NodeRecords ==
    {[network |-> n, id |-> i, sensors |-> ss, location |-> LocationOf(i)] :
        n \in NetworkNames, i \in NodeIds, ss \in SUBSET SensorNames}

\* the populations of nodes: at most MaxNodes, ids unique within a network
NodePopulations ==
    {ns \in SUBSET NodeRecords :
        /\ Cardinality(ns) <= MaxNodes
        /\ \A a, b \in ns : (a.network = b.network /\ a.id = b.id) => a = b}

\* filter values and geometries; the empty set stands for None
None == {}
\* the empty list given as a filter: it names no value, and is not None
EmptyList == {"[]"}
NetworkFilters == {None, {"array_of_things"}, {"net_b"}, {"nowhere"}}
NodeFilters == {None, EmptyList, {"004e"}, {"005a"}, {"zzz"}}
SensorFilters == {None, {"hih4030"}}
FeatureFilters == {None, {"temperature"}, {"gas"}}
Geometries == {None, {1}}
Levels == <<"network", "nodes", "sensors", "features">>
\* "request": inside a flask request context; "worker": outside of one
Contexts == {"request", "worker"}

Requests ==
    [target : {"network", "nodes", "sensors", "features"},
     network : NetworkFilters, nodes : NodeFilters, sensors : SensorFilters,
     features : FeatureFilters, geom : Geometries, ctx : Contexts]

NoRequest ==
    [target |-> "none", network |-> None, nodes |-> None, sensors |-> None,
     features |-> None, geom |-> None, ctx |-> "request"]
NoMsg == [level |-> "none", values |-> {}, target |-> "none"]
NoResult == [kind |-> "none", recs |-> {}, msg |-> NoMsg]

(***************************************************************************)
(* filter_meta and metadata                                                *)
(***************************************************************************)
RECURSIVE BeforeDot(_)
\* the pieces of a reference before its first "."
BeforeDot(p) ==
    IF p = <<>> \/ Head(p) = "." THEN <<>>
    ELSE <<Head(p)>> \o BeforeDot(Tail(p))

RECURSIVE Concat(_)
Concat(p) == IF p = <<>> THEN "" ELSE Head(p) \o Concat(Tail(p))

\* p.split(".")[0]
SplitDot0(p) == Concat(BeforeDot(p))

\* network.nodes: the nodes that reference the network
NodesOfNetwork(net) == {n \in nodes : n.network = net.name}
\* node.sensors: the sensors deployed on the node
SensorsOfNode(n) == {s \in sensors : s.name \in n.sensors}

\* lines 487-499: the values inherited from the records of the level above
ValidValues(meta_level, upper_filter_values) ==
    IF meta_level = "nodes"
        THEN {n.id : n \in UNION {NodesOfNetwork(net) :
                                     net \in upper_filter_values}}
    ELSE IF meta_level = "sensors"
        THEN {s.name : s \in UNION {SensorsOfNode(n) :
                                       n \in upper_filter_values}}
    ELSE IF meta_level = "features"
        THEN {SplitDot0(p) :
                p \in UNION {s.observed_properties :
                                s \in upper_filter_values}}
    ELSE {}

\* lines 477-484, 491-493: the query of a level, narrowed by the geometry at
\* the nodes level (ST_Within of the node's location)
MetaQuery(meta_level, geojson) ==
    IF meta_level = "network" THEN networks
    ELSE IF meta_level = "nodes"
        THEN IF geojson # None
                THEN {n \in nodes : n.location \in geojson}
                ELSE nodes
    ELSE IF meta_level = "sensors" THEN sensors
    ELSE feats

\* lines 509-512: table.name, or table.id where the table has no name
KeyOf(meta_level, rec) == IF meta_level = "nodes" THEN rec.id ELSE rec.name

\* the outcome of filter_meta: the records, or the exception of in_(None)
Resolved(recs) == [ok |-> TRUE, recs |-> recs]
Raised == [ok |-> FALSE, recs |-> {}]

\* lines 475-512
filter_meta(meta_level, upper_filter_values, filter_values, geojson) ==
    LET valid_values == ValidValues(meta_level, upper_filter_values)
        query == MetaQuery(meta_level, geojson)
        falsy == filter_values \in {None, EmptyList}
        values == IF falsy /\ valid_values # {}
                     THEN valid_values ELSE filter_values
    IN  IF meta_level = "network" /\ falsy
            THEN Resolved(query)
        ELSE IF values = None
            THEN Raised
        ELSE IF values = EmptyList
            THEN Resolved({})
        ELSE Resolved({r \in query : KeyOf(meta_level, r) \in values})

\* the message of an empty level built from the level itself
EmptyMsgOfCurrent(i, current_state, target) ==
    [level |-> Levels[i], values |-> current_state[i], target |-> target]

\* lines 460-465: the message names the previous entry of current_state, its
\* value, and the target; for the first level that entry is the last one
EmptyMsg(i, current_state, target) ==
    LET j == IF i = 1 THEN Len(Levels) ELSE i - 1 IN
    [level |-> Levels[j], values |-> current_state[j], target |-> target]

\* what a message shows of the records or filter values of a level
Shown(meta_level, value, resolved) ==
    IF resolved THEN {KeyOf(meta_level, r) : r \in value} ELSE value

\* lines 466-469: bad_request(msg), or ValueError where there is no request
EmptyResolution(ctx, msg) ==
    [kind |-> IF ctx = "request" THEN "bad_request" ELSE "ValueError",
     recs |-> {}, msg |-> msg]

RECURSIVE MetaLoop(_, _, _, _, _, _)
\* lines 450-472: iteration i of the loop over meta_levels; shown[j] is what
\* current_state holds for level j, upper the records of level i - 1
MetaLoop(i, shown, upper, req, filters, geom) ==
    LET key == Levels[i]
        r == filter_meta(key, upper, filters[i], geom)
    IN  IF ~r.ok
            THEN [kind |-> "exception", recs |-> {}, msg |-> NoMsg]
        ELSE IF r.recs = {}
            THEN EmptyResolution(req.ctx, EmptyMsg(i, shown, req.target))
        ELSE IF key = req.target
            THEN [kind |-> "records", recs |-> r.recs, msg |-> NoMsg]
        ELSE MetaLoop(i + 1,
                      [shown EXCEPT ![i] = Shown(key, r.recs, TRUE)],
                      r.recs, req, filters, geom)

\* lines 441-472
metadata(req) ==
    LET filters == <<req.network, req.nodes, req.sensors, req.features>>
    IN  MetaLoop(1, filters, {}, req, filters, req.geom)

(***************************************************************************)
(* Initial states                                                          *)
(***************************************************************************)
SamplePopulation ==
    {[network |-> "array_of_things", id |-> "004e", sensors |-> {"hih4030"},
      location |-> 1],
     [network |-> "array_of_things", id |-> "005a", sensors |-> {"tmp112"},
      location |-> 2]}

MetaInit ==
    /\ networks = {[name |-> n] : n \in NetworkNames}
    /\ nodes \in NodePopulations
    /\ sensors = SensorTable
    /\ feats = FeatureTable
    /\ metadata_args = NoRequest
    /\ result = NoResult

MetaIdle ==
    /\ networks = {[name |-> n] : n \in NetworkNames}
    /\ nodes = SamplePopulation
    /\ sensors = SensorTable
    /\ feats = FeatureTable
    /\ metadata_args = NoRequest
    /\ result = NoResult

(***************************************************************************)
(* observation_query                                                       *)
(***************************************************************************)
\* str.lower() and sqla_fn.lower() over the strings of the model
Lower(x) ==
    CASE x = "004E" -> "004e"
      [] x = "005A" -> "005a"
      [] x = "ZZZ" -> "zzz"
      [] x = "TMP112" -> "tmp112"
      [] x = "TEMPERATURE" -> "temperature"
      [] x = "ARRAY_OF_THINGS" -> "array_of_things"
      [] x = "AVG" -> "avg"
      [] x = "MEDIAN" -> "median"
      [] OTHER -> x

\* the rows a feature table can hold: node_id, sensor, datetime
ObservationRows ==
    [node_id : {"004E", "005a"}, sensor : {"tmp112"},
     datetime : 0..MaxTime]
ObservationTables ==
    {rows \in SUBSET ObservationRows : Cardinality(rows) <= MaxObs}

\* the values of an argument record: None, a byte string or a unicode string
\* (its pieces, with the separators "," "+" "." as pieces of their own), a
\* list of strings, an integer
NoneV == [t |-> "none", v |-> <<>>]
StrV(pieces) == [t |-> "str", v |-> pieces]
UniV(pieces) == [t |-> "unicode", v |-> pieces]
\* the values that have lower() and split()
IsString(value) == value.t \in {"str", "unicode"}
ListV(items) == [t |-> "list", v |-> items]
IntV(n) == [t |-> "int", v |-> <<n>>]

ItemsOf(seq) == {seq[i] : i \in DOMAIN seq}

\* the filter values filter_meta and the queries compare with: None, the
\* items of a list, or the one string
ToFilter(value) ==
    CASE value.t = "none" -> None
      [] value.t = "list" ->
            IF value.v = <<>> THEN EmptyList ELSE ItemsOf(value.v)
      [] OTHER -> {Concat(value.v)}

LimitValues == {NoneV, IntV(0), IntV(1)}
\* start_datetime and end_datetime: a datetime, or None where none was given
DateTimes == {NoneV} \cup {IntV(n) : n \in 0..MaxTime}
\* whether the key is in args.data, and its value there
Optional(values) ==
    {[present |-> FALSE, value |-> NoneV]} \cup [present : {TRUE}, value : values]
Present(value) == [present |-> TRUE, value |-> value]

\* args.data of an observation_query call; limit and offset may be missing
ObsArgsOf(start, end, nodes_f, sensors_f, limit, offset) ==
    [k \in {"start_datetime", "end_datetime", "nodes", "sensors"}
           \cup (IF limit.present THEN {"limit"} ELSE {})
           \cup (IF offset.present THEN {"offset"} ELSE {}) |->
        CASE k = "start_datetime" -> start
          [] k = "end_datetime" -> end
          [] k = "nodes" -> nodes_f
          [] k = "sensors" -> sensors_f
          [] k = "limit" -> limit.value
          [] OTHER -> offset.value]

\* dict.get(key): None for a missing key
Get(data, key) == IF key \in DOMAIN data THEN data[key] ELSE NoneV

\* lines 522-526: the keys whose value is None are deleted
remove_null_keys(data) ==
    [k \in {key \in DOMAIN data : data[key].t # "none"} |-> data[k]]

\* truth value: None, 0, the empty string and the empty list are false
Truthy(value) ==
    CASE value.t = "none" -> FALSE
      [] value.t = "int" -> value # IntV(0)
      [] IsString(value) -> Concat(value.v) # ""
      [] OTHER -> value.v # <<>>

\* the integer of an integer value, 0 for None
ValueOf(value) == IF value.t = "none" THEN 0 ELSE value.v[1]

\* table.c.datetime >= start_dt and table.c.datetime <= end_dt
TimeFilterClosed(row, start_dt, end_dt) ==
    /\ start_dt.t # "none" /\ row.datetime >= ValueOf(start_dt)
    /\ end_dt.t # "none" /\ row.datetime <= ValueOf(end_dt)

\* lines 222-223: table.c.datetime >= start_dt, table.c.datetime < end_dt;
\* a comparison with None is NULL in SQL and keeps no row
TimeFilter(row, start_dt, end_dt) ==
    /\ start_dt.t # "none" /\ row.datetime >= ValueOf(start_dt)
    /\ end_dt.t # "none" /\ row.datetime < ValueOf(end_dt)

NoQuery ==
    [kind |-> "none", start |-> NoneV, end |-> NoneV, nodes |-> None,
     sensors |-> None, limit |-> NoneV, offset |-> NoneV]
\* args.data["limit"] or args.data["offset"] on a missing key
KeyError == [NoQuery EXCEPT !.kind = "KeyError"]

\* lines 213-230
observation_query(data) ==
    IF "limit" \notin DOMAIN data \/ "offset" \notin DOMAIN data
        THEN KeyError
    ELSE [kind |-> "query",
          start |-> Get(data, "start_datetime"),
          end |-> Get(data, "end_datetime"),
          nodes |-> IF Truthy(Get(data, "nodes"))
                    THEN ToFilter(Get(data, "nodes")) ELSE None,
          sensors |-> IF Truthy(Get(data, "sensors"))
                      THEN ToFilter(Get(data, "sensors")) ELSE None,
          limit |-> IF Truthy(data["limit"]) THEN Get(data, "limit")
                    ELSE NoneV,
          offset |-> IF Truthy(data["offset"]) THEN Get(data, "offset")
                     ELSE NoneV]

\* the rows the WHERE clause of a built query lets through
Matching(q, rows) ==
    {r \in rows :
        /\ TimeFilter(r, q.start, q.end)
        /\ q.nodes # None => Lower(r.node_id) \in q.nodes
        /\ q.sensors # None => Lower(r.sensor) \in q.sensors}

Min(a, b) == IF a <= b THEN a ELSE b
Max(a, b) == IF a >= b THEN a ELSE b

\* the row sets q.all() may return: the query has no ORDER BY, so OFFSET and
\* LIMIT keep any rows of the matching ones, in the number they allow
Results(q, rows) ==
    LET m == Matching(q, rows)
        rest == Max(Cardinality(m) - ValueOf(q.offset), 0)
        n == IF q.limit = NoneV THEN rest ELSE Min(ValueOf(q.limit), rest)
    IN  {f \in SUBSET m : Cardinality(f) = n}

IdleArgs ==
    ObsArgsOf(NoneV, NoneV, NoneV, NoneV, Present(NoneV), Present(NoneV))

QueryIdle ==
    /\ table_rows = {}
    /\ obs_args = IdleArgs
    /\ obs_query = NoQuery
    /\ fetched = {}

QueryInit ==
    /\ table_rows \in ObservationTables
    /\ obs_args = IdleArgs
    /\ obs_query = NoQuery
    /\ fetched = {}

(***************************************************************************)
(* The endpoints: nothing was called yet                                   *)
(***************************************************************************)
NoCall ==
    [endpoint |-> "none", network |-> NoneV, ident |-> NoneV,
     function |-> NoneV, agg |-> NoneV, sensors |-> NoneV, geom |-> NoneV]
NoResponse == [kind |-> "none"]
\* the empty argument record, validated
NoValidated == [data |-> [k \in {} |-> NoneV], errors |-> {}]

ApiIdle ==
    /\ api_call = NoCall
    /\ validated = NoValidated
    /\ api_response = NoResponse
    /\ core_calls = {}

(***************************************************************************)
(* Initial state: job t1 was dispatched with its resolved queries.         *)
(***************************************************************************)
QueryLists ==
    {q \in [1..Len(TableNames) -> [name : {"temperature", "humidity"},
                                   count : 0..MaxRows]] :
        \A i \in 1..Len(TableNames) : q[i].name = TableNames[i]}

\* the tickets in running were dispatched, ticket t with the queries qs[t]
ExportStartWith(running, qs) ==
    /\ chunk_size \in 1..MaxChunkSize
    /\ queries = qs
    /\ pc = [t \in Tickets |-> IF t \in running THEN "start" ELSE "idle"]
    /\ ret = [t \in Tickets |-> "none"]
    /\ row_count = [t \in Tickets |-> 0]
    /\ chunk_count = [t \in Tickets |-> 0]
    /\ chunk_number = [t \in Tickets |-> 0]
    /\ chunk = [t \in Tickets |-> <<>>]
    /\ features = [t \in Tickets |-> {}]
    /\ qi = [t \in Tickets |-> 0]
    /\ ri = [t \in Tickets |-> 0]
    /\ local_status = [t \in Tickets |-> NoProgress]
    /\ pending = [t \in Tickets |-> {}]
    /\ dumps = {}
    /\ status = [t \in Tickets |-> NoProgress]
    /\ flag = [t \in Tickets |-> NoFlag]
    /\ flag_calls = [t \in Tickets |-> 0]
    /\ rollbacks = [t \in Tickets |-> 0]
    /\ err = [t \in Tickets |-> "none"]

ExportStart(running) ==
    \E q \in QueryLists : ExportStartWith(running, [t \in Tickets |-> q])

ExportInit == ExportStart({"t1"})

\* no export job was dispatched
ExportIdle ==
    /\ chunk_size = 1
    /\ queries = [t \in Tickets |-> <<>>]
    /\ pc = [t \in Tickets |-> "idle"]
    /\ ret = [t \in Tickets |-> "none"]
    /\ row_count = [t \in Tickets |-> 0]
    /\ chunk_count = [t \in Tickets |-> 0]
    /\ chunk_number = [t \in Tickets |-> 0]
    /\ chunk = [t \in Tickets |-> <<>>]
    /\ features = [t \in Tickets |-> {}]
    /\ qi = [t \in Tickets |-> 0]
    /\ ri = [t \in Tickets |-> 0]
    /\ local_status = [t \in Tickets |-> NoProgress]
    /\ pending = [t \in Tickets |-> {}]
    /\ dumps = {}
    /\ status = [t \in Tickets |-> NoProgress]
    /\ flag = [t \in Tickets |-> NoFlag]
    /\ flag_calls = [t \in Tickets |-> 0]
    /\ rollbacks = [t \in Tickets |-> 0]
    /\ err = [t \in Tickets |-> "none"]

Init == ExportInit /\ MetaIdle /\ QueryIdle /\ ApiIdle

(***************************************************************************)
(* get_observation_datadump                                                *)
(***************************************************************************)
\* lines 372-381: the count pass and the initialisation of the loop
CountRows(t) ==
    /\ pc[t] = "start"
    /\ row_count' = [row_count EXCEPT ![t] = SumCounts(queries[t])]
    /\ chunk_count' = [chunk_count EXCEPT
                          ![t] = CeilDiv(SumCounts(queries[t]), chunk_size)]
    /\ chunk_number' = [chunk_number EXCEPT ![t] = 1]
    /\ chunk' = [chunk EXCEPT ![t] = <<>>]
    /\ features' = [features EXCEPT ![t] = {}]
    /\ qi' = [qi EXCEPT ![t] = 1]
    /\ pc' = [pc EXCEPT ![t] = "table"]
    /\ UNCHANGED <<metaVars, queryVars, apiVars>>
    /\ UNCHANGED <<chunk_size, queries, ret, ri, local_status, pending, dumps,
                   status, flag, flag_calls, rollbacks, err>>

\* lines 382-385: next (query, table); features.add(table.name.lower())
BeginTable(t) ==
    /\ pc[t] = "table"
    /\ qi[t] <= Len(queries[t])
    /\ features' = [features EXCEPT ![t] = @ \cup {queries[t][qi[t]].name}]
    /\ ri' = [ri EXCEPT ![t] = 0]
    /\ pc' = [pc EXCEPT ![t] = "rows"]
    /\ UNCHANGED <<metaVars, queryVars, apiVars>>
    /\ UNCHANGED <<chunk_size, queries, ret, row_count, chunk_count,
                   chunk_number, chunk, qi, local_status, pending, dumps,
                   status, flag, flag_calls, rollbacks, err>>

\* the flush test of the row loop, "if len(chunk) > chunk_size"
ChunkFull(c, size) == Len(c) > size

\* lines 385-389: one row of windowed_query is formatted and appended; a full
\* buffer enters store_chunk
AppendRow(t) ==
    /\ pc[t] = "rows"
    /\ ri[t] < queries[t][qi[t]].count
    /\ LET c == Append(chunk[t], queries[t][qi[t]].name) IN
        /\ chunk' = [chunk EXCEPT ![t] = c]
        /\ IF ChunkFull(c, chunk_size)
              THEN /\ pc' = [pc EXCEPT ![t] = "add"]
                   /\ ret' = [ret EXCEPT ![t] = "rows"]
              ELSE UNCHANGED <<pc, ret>>
    /\ ri' = [ri EXCEPT ![t] = @ + 1]
    /\ UNCHANGED <<metaVars, queryVars, apiVars>>
    /\ UNCHANGED <<chunk_size, queries, row_count, chunk_count, chunk_number,
                   features, qi, local_status, pending, dumps, status, flag,
                   flag_calls, rollbacks, err>>

\* the inner for loop is exhausted
EndTable(t) ==
    /\ pc[t] = "rows"
    /\ ri[t] = queries[t][qi[t]].count
    /\ qi' = [qi EXCEPT ![t] = @ + 1]
    /\ pc' = [pc EXCEPT ![t] = "table"]
    /\ UNCHANGED <<metaVars, queryVars, apiVars>>
    /\ UNCHANGED <<chunk_size, queries, ret, row_count, chunk_count,
                   chunk_number, chunk, features, ri, local_status, pending,
                   dumps, status, flag, flag_calls, rollbacks, err>>

\* lines 393-394: after the loops, "if len(chunk) > 0: store_chunk(...)"
EndTables(t) ==
    /\ pc[t] = "table"
    /\ qi[t] > Len(queries[t])
    /\ IF Len(chunk[t]) > 0
          THEN /\ pc' = [pc EXCEPT ![t] = "add"]
               /\ ret' = [ret EXCEPT ![t] = "summary"]
          ELSE /\ pc' = [pc EXCEPT ![t] = "summary"]
               /\ UNCHANGED ret
    /\ UNCHANGED <<metaVars, queryVars, apiVars>>
    /\ UNCHANGED <<chunk_size, queries, row_count, chunk_count, chunk_number,
                   chunk, features, qi, ri, local_status, pending, dumps,
                   status, flag, flag_calls, rollbacks, err>>

(***************************************************************************)
(* store_chunk(chunk, chunk_count, chunk_number, request_id)               *)
(***************************************************************************)
\* lines 417-425: build the part and session.add it
SessionAdd(t) ==
    /\ pc[t] = "add"
    /\ pending' = [pending EXCEPT
          ![t] = @ \cup {DataDump(t, chunk_number[t], chunk_count[t],
                                  chunk[t], {})}]
    /\ pc' = [pc EXCEPT ![t] = "commit"]
    /\ UNCHANGED <<metaVars, queryVars, apiVars>>
    /\ UNCHANGED <<chunk_size, queries, ret, row_count, chunk_count,
                   chunk_number, chunk, features, qi, ri, local_status, dumps,
                   status, flag, flag_calls, rollbacks, err>>

\* line 428: session.commit() succeeds
CommitOk(t) ==
    /\ pc[t] = "commit"
    /\ dumps' = dumps \cup pending[t]
    /\ pending' = [pending EXCEPT ![t] = {}]
    /\ pc' = [pc EXCEPT ![t] = "get_status"]
    /\ UNCHANGED <<metaVars, queryVars, apiVars>>
    /\ UNCHANGED <<chunk_size, queries, ret, row_count, chunk_count,
                   chunk_number, chunk, features, qi, ri, local_status,
                   status, flag, flag_calls, rollbacks, err>>

\* lines 429-431: session.commit() raises; rollback, then "raise e" ends the run
CommitFail(t) ==
    /\ pc[t] = "commit"
    /\ pending' = [pending EXCEPT ![t] = Rollback(@)]
    /\ rollbacks' = [rollbacks EXCEPT ![t] = @ + 1]
    /\ err' = [err EXCEPT ![t] = "commit"]
    /\ pc' = [pc EXCEPT ![t] = "failed"]
    /\ UNCHANGED <<metaVars, queryVars, apiVars>>
    /\ UNCHANGED <<chunk_size, queries, ret, row_count, chunk_count,
                   chunk_number, chunk, features, qi, ri, local_status, dumps,
                   status, flag, flag_calls>>

\* line 433: status = get_status(request_id)
GetStatusOk(t) ==
    /\ pc[t] = "get_status"
    /\ local_status' = [local_status EXCEPT ![t] = status[t]]
    /\ pc' = [pc EXCEPT ![t] = "set_status"]
    /\ UNCHANGED <<metaVars, queryVars, apiVars>>
    /\ UNCHANGED <<chunk_size, queries, ret, row_count, chunk_count,
                   chunk_number, chunk, features, qi, ri, pending, dumps,
                   status, flag, flag_calls, rollbacks, err>>

\* a call to the job store raises: nothing catches it, the run ends
JobStoreFail(t) ==
    /\ pc[t] \in {"get_status", "set_status", "set_flag"}
    /\ err' = [err EXCEPT ![t] = pc[t]]
    /\ pc' = [pc EXCEPT ![t] = "failed"]
    /\ UNCHANGED <<metaVars, queryVars, apiVars>>
    /\ UNCHANGED <<chunk_size, queries, ret, row_count, chunk_count,
                   chunk_number, chunk, features, qi, ri, local_status,
                   pending, dumps, status, flag, flag_calls, rollbacks>>

\* set_status writing one record for every ticket instead of the caller's
SetStatusOkSharedKey(t) ==
    /\ pc[t] = "set_status"
    /\ status' = [u \in Tickets |->
          WithProgress(local_status[t], chunk_number[t], chunk_count[t])]
    /\ pc' = [pc EXCEPT ![t] = "set_flag"]
    /\ UNCHANGED <<metaVars, queryVars, apiVars>>
    /\ UNCHANGED <<chunk_size, queries, ret, row_count, chunk_count,
                   chunk_number, chunk, features, qi, ri, local_status,
                   pending, dumps, flag, flag_calls, rollbacks, err>>

\* lines 434-435: the progress is written into the fetched dict and stored
SetStatusOk(t) ==
    /\ pc[t] = "set_status"
    /\ status' = [status EXCEPT
          ![t] = WithProgress(local_status[t], chunk_number[t], chunk_count[t])]
    /\ pc' = [pc EXCEPT ![t] = "set_flag"]
    /\ UNCHANGED <<metaVars, queryVars, apiVars>>
    /\ UNCHANGED <<chunk_size, queries, ret, row_count, chunk_count,
                   chunk_number, chunk, features, qi, ri, local_status,
                   pending, dumps, flag, flag_calls, rollbacks, err>>

\* line 438: set_flag(request_id + "_suppresscleanup", True, 10800); store_chunk
\* returns, in the row loop to "chunk = list(); chunk_number += 1" (390-391)
SetFlagOk(t) ==
    /\ pc[t] = "set_flag"
    /\ flag' = [flag EXCEPT ![t] = [set |-> TRUE, ttl |-> SuppressTTL]]
    /\ flag_calls' = [flag_calls EXCEPT ![t] = @ + 1]
    /\ IF ret[t] = "rows"
          THEN /\ chunk' = [chunk EXCEPT ![t] = <<>>]
               /\ chunk_number' = [chunk_number EXCEPT ![t] = @ + 1]
          ELSE UNCHANGED <<chunk, chunk_number>>
    /\ pc' = [pc EXCEPT ![t] = ret[t]]
    /\ UNCHANGED <<metaVars, queryVars, apiVars>>
    /\ UNCHANGED <<chunk_size, queries, ret, row_count, chunk_count,
                   features, qi, ri, local_status, pending, dumps, status,
                   rollbacks, err>>

(***************************************************************************)
(* the summary record of get_observation_datadump                          *)
(***************************************************************************)
\* lines 396-405: get_status for startTime, build meta_chunk, session.add(dump)
SummaryAdd(t) ==
    /\ pc[t] = "summary"
    /\ pending' = [pending EXCEPT
          ![t] = @ \cup {DataDump(t, 0, chunk_count[t], <<>>, features[t])}]
    /\ pc' = [pc EXCEPT ![t] = "summary_commit"]
    /\ UNCHANGED <<metaVars, queryVars, apiVars>>
    /\ UNCHANGED <<chunk_size, queries, ret, row_count, chunk_count,
                   chunk_number, chunk, features, qi, ri, local_status, dumps,
                   status, flag, flag_calls, rollbacks, err>>

\* line 397: get_status raises while the summary is built
SummaryStatusFail(t) ==
    /\ pc[t] = "summary"
    /\ err' = [err EXCEPT ![t] = "summary_get_status"]
    /\ pc' = [pc EXCEPT ![t] = "failed"]
    /\ UNCHANGED <<metaVars, queryVars, apiVars>>
    /\ UNCHANGED <<chunk_size, queries, ret, row_count, chunk_count,
                   chunk_number, chunk, features, qi, ri, local_status,
                   pending, dumps, status, flag, flag_calls, rollbacks>>

\* lines 406-412: the commit succeeds and the run returns the url
SummaryCommitOk(t) ==
    /\ pc[t] = "summary_commit"
    /\ dumps' = dumps \cup pending[t]
    /\ pending' = [pending EXCEPT ![t] = {}]
    /\ pc' = [pc EXCEPT ![t] = "done"]
    /\ UNCHANGED <<metaVars, queryVars, apiVars>>
    /\ UNCHANGED <<chunk_size, queries, ret, row_count, chunk_count,
                   chunk_number, chunk, features, qi, ri, local_status,
                   status, flag, flag_calls, rollbacks, err>>

\* lines 408-410: the commit raises; rollback, then "raise e"
SummaryCommitFail(t) ==
    /\ pc[t] = "summary_commit"
    /\ pending' = [pending EXCEPT ![t] = Rollback(@)]
    /\ rollbacks' = [rollbacks EXCEPT ![t] = @ + 1]
    /\ err' = [err EXCEPT ![t] = "summary_commit"]
    /\ pc' = [pc EXCEPT ![t] = "failed"]
    /\ UNCHANGED <<metaVars, queryVars, apiVars>>
    /\ UNCHANGED <<chunk_size, queries, ret, row_count, chunk_count,
                   chunk_number, chunk, features, qi, ri, local_status, dumps,
                   status, flag, flag_calls>>

ExportStep(t) ==
    \/ CountRows(t)
    \/ BeginTable(t)
    \/ AppendRow(t)
    \/ EndTable(t)
    \/ EndTables(t)
    \/ SessionAdd(t)
    \/ CommitOk(t)
    \/ CommitFail(t)
    \/ GetStatusOk(t)
    \/ JobStoreFail(t)
    \/ SetStatusOk(t)
    \/ SetFlagOk(t)
    \/ SummaryAdd(t)
    \/ SummaryStatusFail(t)
    \/ SummaryCommitOk(t)
    \/ SummaryCommitFail(t)

Next == \E t \in Tickets : ExportStep(t)

Spec == Init /\ [][Next]_vars

\* two export jobs with different tickets run on two workers at once
ConcInit ==
    /\ \E qs \in [Tickets -> QueryLists] : ExportStartWith(Tickets, qs)
    /\ MetaIdle
    /\ QueryIdle
    /\ ApiIdle

SpecConc == ConcInit /\ [][Next]_vars

(***************************************************************************)
(* Serving metadata requests                                               *)
(***************************************************************************)
\* get_raw_metadata (lines 233-242): one call of metadata(**metadata_args); the
\* store is only read, so a behaviour serves one call per population
GetRawMetadata(req) ==
    /\ metadata_args = NoRequest
    /\ metadata_args' = req
    /\ result' = metadata(req)
    /\ UNCHANGED <<networks, nodes, sensors, feats>>
    /\ UNCHANGED <<exportVars, queryVars, apiVars>>

MetaNext == \E req \in Requests : GetRawMetadata(req)

MetaSpecInit == ExportIdle /\ MetaInit /\ QueryIdle /\ ApiIdle

SpecMeta == MetaSpecInit /\ [][MetaNext]_vars

(***************************************************************************)
(* The endpoints                                                           *)
(***************************************************************************)
\* what callers put in the path and the query string
RawNetworks == {"array_of_things", "ARRAY_OF_THINGS", "nowhere"}
RawNodes == {"004e", "004E", "zzz"}
RawSensors == {"tmp112", "TMP112", "zzz"}
RawFeatures == {"temperature", "TEMPERATURE", "zzz"}
RawFunctions == {"avg", "AVG", "median"}
RawAggs == {"hour", "fortnight"}
\* the nodes of a download, as the query string gives them
RawNodeLists ==
    {<<"004E">>, <<"004e", ",", "005A">>, <<"004e", ",", "zzz">>}
\* the sensors of an aggregation, as the query string gives them
RawSensorLists == {<<"tmp112">>, <<"tmp112", ",", "+">>}
\* a string arrives as unicode from flask under Python 2, as a byte string
\* from a caller that passes one
StringsOf(pieces) == {StrV(p) : p \in pieces} \cup {UniV(p) : p \in pieces}
OneOf(raw) == StringsOf({<<x>> : x \in raw})
\* nothing, the empty string, or one of the strings
OptionalOf(raw) == {NoneV} \cup StringsOf({<<>>}) \cup OneOf(raw)

\* the registry of aggregate functions
AggregateFns == {"avg", "min", "max", "sum", "count"}
\* sensor_validator.py line 13
valid_sensor_aggs == {"minute", "hour", "day", "week", "month", "year"}

\* NetworkMeta.index(), NodeMeta.index(), SensorMeta.index(),
\* FeatureMeta.index(): the stored names and ids
NetworkIndex == {n.name : n \in networks}
NodeIndex == {n.id : n \in nodes}
SensorIndex == {s.name : s \in sensors}
FeatureIndex == {f.name : f \in feats}

LowerSeq(seq) == [i \in DOMAIN seq |-> Lower(seq[i])]

RECURSIVE Before(_, _)
\* the pieces of a string before the first separator sep
Before(sep, p) ==
    IF p = <<>> \/ Head(p) = sep THEN <<>>
    ELSE <<Head(p)>> \o Before(sep, Tail(p))

RECURSIVE After(_, _)
\* the pieces of a string after the first separator sep
After(sep, p) ==
    IF p = <<>> THEN <<>>
    ELSE IF Head(p) = sep THEN Tail(p)
    ELSE After(sep, Tail(p))

RECURSIVE SplitOn(_, _)
\* str.split(sep): the list of the strings between the separators
SplitOn(sep, p) ==
    IF sep \notin ItemsOf(p) THEN <<Concat(p)>>
    ELSE <<Concat(Before(sep, p))>> \o SplitOn(sep, After(sep, p))

\* feature.split(".")[0] of a list item
StripProperty(x) ==
    CASE x = "temperature.temperature" -> "temperature"
      [] x = "." -> ""
      [] x = "temperature.internal" -> "temperature"
      [] x = "humidity.humidity" -> "humidity"
      [] OTHER -> x

\* the characters of a piece of a string
CharsOf(x) ==
    CASE x = "004e" -> <<"0", "0", "4", "e">>
      [] x = "004E" -> <<"0", "0", "4", "E">>
      [] x = "005a" -> <<"0", "0", "5", "a">>
      [] x = "005A" -> <<"0", "0", "5", "A">>
      [] x = "zzz" -> <<"z", "z", "z">>
      [] x = "ZZZ" -> <<"Z", "Z", "Z">>
      [] x = "tmp112" -> <<"t", "m", "p", "1", "1", "2">>
      [] x = "TMP112" -> <<"T", "M", "P", "1", "1", "2">>
      [] x = "hih4030" -> <<"h", "i", "h", "4", "0", "3", "0">>
      [] x = "temperature" ->
            <<"t", "e", "m", "p", "e", "r", "a", "t", "u", "r", "e">>
      [] x = "TEMPERATURE" ->
            <<"T", "E", "M", "P", "E", "R", "A", "T", "U", "R", "E">>
      [] x = "humidity" -> <<"h", "u", "m", "i", "d", "i", "t", "y">>
      [] x = "internal" -> <<"i", "n", "t", "e", "r", "n", "a", "l">>
      [] x = "gas" -> <<"g", "a", "s">>
      [] OTHER -> <<x>>

RECURSIVE Chars(_)
\* the characters of a string, piece by piece
Chars(p) == IF p = <<>> THEN <<>> ELSE CharsOf(Head(p)) \o Chars(Tail(p))

\* sensor_validator.py lines 22-23, 31-32, 41-42: the items a validator loops
\* over. isinstance(x, str) wraps a byte string in a list; a unicode string
\* is not a str, and the loop runs over its characters
ItemList(value) ==
    CASE value.t = "str" -> <<Concat(value.v)>>
      [] value.t = "unicode" -> Chars(value.v)
      [] OTHER -> value.v

\* sensor_validator.py lines 16-18
validate_network(value) == Lower(Concat(value.v)) \in NetworkIndex
\* sensor_validator.py lines 21-27
validate_nodes(value) ==
    \A x \in ItemsOf(ItemList(value)) : Lower(x) \in NodeIndex
\* sensor_validator.py lines 40-47
validate_sensors(value) ==
    \A x \in ItemsOf(ItemList(value)) : Lower(x) \in SensorIndex
\* sensor_validator.py lines 30-37
validate_features(value) ==
    \A x \in ItemsOf(ItemList(value)) : Lower(StripProperty(x)) \in FeatureIndex

\* the validate= of the fields of Validator and NodeAggregateValidator
FieldValid(field, value) ==
    CASE field = "network" -> validate_network(value)
      [] field \in {"nodes", "node"} -> validate_nodes(value)
      [] field = "sensors" -> validate_sensors(value)
      [] field \in {"features", "feature"} -> validate_features(value)
      [] field = "function" -> Lower(Concat(value.v)) \in AggregateFns
      [] field = "agg" -> Concat(value.v) \in valid_sensor_aggs
      [] OTHER -> TRUE

\* the missing= of the fields: the value loaded for a key that was not given
MissingValue(field) ==
    CASE field = "function" -> StrV(<<"avg">>)
      [] field = "agg" -> StrV(<<"hour">>)
      [] OTHER -> NoneV
HasMissingValue(field) ==
    field \in {"network", "nodes", "sensors", "features", "function", "agg"}

\* validate(validator, args): the fields that were given and are valid, the
\* missing= values of those not given, and the names of the fields in error:
\* a given value its validator rejects, or a required field not given
validate(fields, required, args) ==
    LET given == {k \in fields \cap DOMAIN args : args[k].t # "none"}
        errors == {k \in given : ~FieldValid(k, args[k])}
                  \cup {k \in required : k \notin given}
        loaded == (given \ errors)
                  \cup {k \in fields \ given : HasMissingValue(k)}
    IN  [data |-> [k \in loaded |->
                      IF k \in given THEN args[k] ELSE MissingValue(k)],
         errors |-> errors]

\* list.split: 'list' object has no attribute 'split'
AttributeError == [t |-> "AttributeError", v |-> <<>>]

\* lines 545-552 for one key: a value with no lower() is left as it is; a
\* string is lower-cased; under nodes, sensors and features it is split on
\* ",", and "+" is then looked for among the items of the list, where
\* split("+") raises outside the try; in a string it is looked for among the
\* characters and the string is cut there
sanitize_value(k, value) ==
    IF ~IsString(value) THEN value
    ELSE LET low == LowerSeq(value.v) IN
         IF k \in {"nodes", "sensors", "features"}
            THEN IF "+" \in ItemsOf(SplitOn(",", low))
                    THEN AttributeError
                    ELSE ListV(SplitOn(",", low))
         ELSE IF "+" \in ItemsOf(low)
            THEN [t |-> value.t, v |-> Before("+", low)]
         ELSE [t |-> value.t, v |-> low]

\* what a sanitize call gives: the arguments, or the exception it raised
Sanitized(args) ==
    IF \E k \in DOMAIN args : sanitize_value(k, args[k]) = AttributeError
        THEN [raised |-> TRUE, data |-> [k \in {} |-> NoneV]]
        ELSE [raised |-> FALSE,
              data |-> [k \in DOMAIN args |-> sanitize_value(k, args[k])]]

\* lines 529-539
sanitize_args(args) == Sanitized(args)

\* lines 542-553
sanitize_validated_args(data) == Sanitized(remove_null_keys(data))

\* the geometries callers give, as strings of geojson
RawGeoms == {"within-1"}

\* ST_Within(ST_GeomFromGeoJSON(geojson)): the locations a geometry holds;
\* location 0 is one where no node stands
LocationsWithin(geojson) ==
    CASE geojson = "within-1" -> {1}
      [] geojson = "within-2" -> {2}
      [] geojson = "within-1-2" -> {1, 2}
      [] OTHER -> {0}

\* the geometry filter_meta is given: None, or the locations of the geojson
ToGeom(value) ==
    IF ~Truthy(value) THEN None ELSE LocationsWithin(Concat(value.v))

\* lines 233-242: the arguments get_raw_metadata hands to metadata
MetaRequest(target, data) ==
    [target |-> target,
     network |-> ToFilter(Get(data, "network")),
     nodes |-> ToFilter(Get(data, "nodes")),
     sensors |-> ToFilter(Get(data, "sensors")),
     features |-> ToFilter(Get(data, "features")),
     geom |-> ToGeom(Get(data, "geom")), ctx |-> "request"]

Call(endpoint, network, ident, function, agg, sensors_q, geom) ==
    [endpoint |-> endpoint, network |-> network, ident |-> ident,
     function |-> function, agg |-> agg, sensors |-> sensors_q,
     geom |-> geom]

Exception == [kind |-> "exception"]

BadRequest == [kind |-> "bad_request"]
Core(component, arg) == [component |-> component, arg |-> arg]

\* the errors test of an endpoint that lets every request through
HasErrorsIgnored(v) == FALSE

\* if validated_args.errors: return bad_request(validated_args.errors)
HasErrors(v) == v.errors # {}

\* one endpoint call: what was validated, what was answered, which core
\* components ran, and the metadata resolution if there was one
Endpoint(call, v, response, calls, req) ==
    /\ api_call = NoCall
    /\ api_call' = call
    /\ validated' = v
    /\ api_response' = response
    /\ core_calls' = calls
    /\ metadata_args' = req
    /\ result' = IF req = NoRequest THEN NoResult ELSE metadata(req)
    /\ UNCHANGED <<networks, nodes, sensors, feats>>
    /\ UNCHANGED <<exportVars, queryVars>>

\* lines 245-250: the records as json, or what metadata returned instead
get_metadata(target, call, v, data) ==
    LET req == MetaRequest(target, remove_null_keys(data))
        r == metadata(req)
    IN  Endpoint(call, v,
                 [kind |-> IF r.kind = "records" THEN "ok" ELSE r.kind],
                 {Core("metadata", target)}, req)

\* lines 30-45
GetNetworkMetadata(network) ==
    LET call == Call("network", network, NoneV, NoneV, NoneV, NoneV, NoneV)
        args == [k \in {"network"} |->
                    IF ~Truthy(network) THEN NoneV
                    ELSE [t |-> network.t, v |-> LowerSeq(network.v)]]
        v == validate({"network"}, {}, args)
    IN  IF HasErrors(v) THEN Endpoint(call, v, BadRequest, {}, NoRequest)
        ELSE get_metadata("network", call, v, v.data)

\* the arguments of the node, sensor and feature endpoints: the network and
\* [ident] if ident else None under the key of the level
LevelArgs(key, network, ident, geom) ==
    [k \in {"network", key}
           \cup (IF geom.t = "none" THEN {} ELSE {"geom"}) |->
        IF k = "network" THEN network
        ELSE IF k = "geom" THEN geom
        ELSE IF ~Truthy(ident) THEN NoneV
        ELSE ListV(<<Concat(ident.v)>>)]

\* lines 50-68
GetNodeMetadata(network, node, geom) ==
    LET call == Call("nodes", network, node, NoneV, NoneV, NoneV, geom)
        v == validate({"network", "nodes", "geom"}, {},
                      LevelArgs("nodes", network, node, geom))
        args == sanitize_validated_args(v.data)
    IN  IF HasErrors(v) THEN Endpoint(call, v, BadRequest, {}, NoRequest)
        ELSE IF args.raised THEN Endpoint(call, v, Exception, {}, NoRequest)
        ELSE get_metadata("nodes", call, v, args.data)

\* lines 73-91
GetSensorMetadata(network, sensor, geom) ==
    LET call == Call("sensors", network, sensor, NoneV, NoneV, NoneV, geom)
        v == validate({"network", "sensors", "geom"}, {},
                      LevelArgs("sensors", network, sensor, geom))
        args == sanitize_validated_args(v.data)
    IN  IF HasErrors(v) THEN Endpoint(call, v, BadRequest, {}, NoRequest)
        ELSE IF args.raised THEN Endpoint(call, v, Exception, {}, NoRequest)
        ELSE get_metadata("sensors", call, v, args.data)

\* lines 96-112: the validated arguments are not sanitized
GetFeatureMetadata(network, feature, geom) ==
    LET call == Call("features", network, feature, NoneV, NoneV, NoneV, geom)
        v == validate({"network", "features", "geom"}, {},
                      LevelArgs("features", network, feature, geom))
    IN  IF HasErrors(v) THEN Endpoint(call, v, BadRequest, {}, NoRequest)
        ELSE get_metadata("features", call, v, v.data)

\* lines 116-136: sanitize_args is given the validation result, not its data;
\* it raises where the result is a tuple, and the queries are resolved and run
\* where it supports item assignment
GetObservations(network, feature) ==
    LET call == Call("observations", network, feature, NoneV, NoneV, NoneV, NoneV)
        args == [k \in {"network", "feature"} |->
                    IF k = "network" THEN network ELSE feature]
        v == validate({"network", "nodes", "feature", "sensors"},
                      {"feature"}, args)
        sane == sanitize_validated_args(v.data)
        req == MetaRequest("features", sane.data)
        r == metadata(req)
    IN  IF HasErrors(v) THEN Endpoint(call, v, BadRequest, {}, NoRequest)
        ELSE \/ Endpoint(call, v, Exception, {}, NoRequest)
             \/ IF sane.raised
                   THEN Endpoint(call, v, Exception, {}, NoRequest)
                ELSE IF r.kind = "records"
                   THEN Endpoint(call, v, [kind |-> "ok"],
                                 {Core("metadata", "features"),
                                  Core("observation_query", "")}, req)
                   ELSE Endpoint(call, v, [kind |-> r.kind],
                                 {Core("metadata", "features")}, req)

\* lines 141-180: the nodes are split and lower-cased before validation
GetObservationsDownload(network_name, node_list) ==
    LET call == Call("download", network_name, node_list, NoneV, NoneV, NoneV, NoneV)
        args == [k \in IF node_list.t = "none" THEN {} ELSE {"nodes"} |->
                    ListV(LowerSeq(SplitOn(",", node_list.v)))]
        v == validate({"nodes", "sensors"}, {}, args)
    IN  IF HasErrors(v) THEN Endpoint(call, v, BadRequest, {}, NoRequest)
        ELSE Endpoint(call, v, [kind |-> "job"],
                      {Core("enqueue", "observation_datadump")}, NoRequest)

\* lines 185-210: the request arguments are sanitized before validation too
GetAggregations(network, node, function, agg, sensors_q) ==
    LET call == Call("aggregations", network, node, function, agg, sensors_q,
                     NoneV)
        given == [k \in {"network", "node", "function", "agg", "sensors"} |->
                    CASE k = "network" -> network
                      [] k = "node" -> node
                      [] k = "function" -> function
                      [] k = "agg" -> agg
                      [] OTHER -> sensors_q]
        request_args ==
            [k \in {key \in DOMAIN given : given[key].t # "none"} |-> given[k]]
        sane_args == sanitize_args(request_args)
        v == validate({"network", "node", "sensors", "features", "function",
                       "agg"}, {"node"}, sane_args.data)
        sane == sanitize_validated_args(v.data)
        fn == Concat(Get(sane.data, "function").v)
    IN  IF sane_args.raised
            THEN Endpoint(call, NoValidated, Exception, {}, NoRequest)
        ELSE IF HasErrors(v) THEN Endpoint(call, v, BadRequest, {}, NoRequest)
        ELSE IF sane.raised THEN Endpoint(call, v, Exception, {}, NoRequest)
        ELSE \E kind \in {"ok", "unprocessable"} :
                Endpoint(call, v, [kind |-> kind], {Core("aggregate", fn)},
                         NoRequest)

ApiNext ==
    \/ /\ api_call = NoCall
       /\ \E network \in OptionalOf(RawNetworks) : GetNetworkMetadata(network)
    \/ /\ api_call = NoCall
       /\ \E network \in OneOf(RawNetworks), node \in OptionalOf(RawNodes),
             geom \in {NoneV} \cup OneOf(RawGeoms) :
             GetNodeMetadata(network, node, geom)
    \/ /\ api_call = NoCall
       /\ \E network \in OneOf(RawNetworks), sensor \in OptionalOf(RawSensors),
             geom \in {NoneV} \cup OneOf(RawGeoms) :
             GetSensorMetadata(network, sensor, geom)
    \/ /\ api_call = NoCall
       /\ \E network \in OneOf(RawNetworks), feature \in OptionalOf(RawFeatures),
             geom \in {NoneV} \cup OneOf(RawGeoms) :
             GetFeatureMetadata(network, feature, geom)
    \/ /\ api_call = NoCall
       /\ \E network \in OneOf(RawNetworks), feature \in OptionalOf(RawFeatures) :
             GetObservations(network, feature)
    \/ /\ api_call = NoCall
       /\ \E network \in OneOf(RawNetworks),
             node_list \in {NoneV} \cup StringsOf(RawNodeLists) :
             GetObservationsDownload(network, node_list)
    \/ /\ api_call = NoCall
       /\ \E network \in OneOf(RawNetworks), node \in OptionalOf(RawNodes),
             function \in OptionalOf(RawFunctions), agg \in OptionalOf(RawAggs),
             sensors_q \in {NoneV} \cup StringsOf(RawSensorLists) :
             GetAggregations(network, node, function, agg, sensors_q)

ApiSpecInit == ExportIdle /\ MetaIdle /\ QueryIdle /\ ApiIdle

SpecApi == ApiSpecInit /\ [][ApiNext]_vars

(***************************************************************************)
(* Building and running one observation query                              *)
(***************************************************************************)
\* get_observation_queries for one table: the validated arguments go through
\* sanitize_validated_args, which removes the null keys (lines 331, 543); the
\* features are resolved, and what metadata answered is returned where that
\* is no list of records (lines 334-336); then observation_query(args, table)
\* builds the query and query.all() runs it
ObservationQuery(data, ctx) ==
    LET sane == sanitize_validated_args(data)
        req == [MetaRequest("features", sane.data) EXCEPT !.ctx = ctx]
        r == metadata(req)
    IN  /\ obs_query = NoQuery
        /\ obs_args' = sane.data
        /\ IF sane.raised
              THEN /\ obs_query' = [NoQuery EXCEPT !.kind = "AttributeError"]
                   /\ UNCHANGED <<metadata_args, result>>
              ELSE /\ metadata_args' = req
                   /\ result' = r
                   /\ obs_query' = IF r.kind = "records"
                                      THEN observation_query(sane.data)
                                      ELSE [NoQuery EXCEPT !.kind = r.kind]
        /\ IF obs_query'.kind = "query"
              THEN fetched' \in Results(obs_query', table_rows)
              ELSE fetched' = {}
        /\ UNCHANGED <<table_rows, networks, nodes, sensors, feats>>
        /\ UNCHANGED <<exportVars, apiVars>>

QueryNext ==
    \E start, end \in DateTimes :
      \E nodes_f \in {NoneV, ListV(<<"004e">>), ListV(<<"zzz">>)},
         sensors_f \in {NoneV, ListV(<<"tmp112">>)}, ctx \in Contexts :
        \E limit, offset \in Optional(LimitValues) :
          ObservationQuery(
              ObsArgsOf(start, end, nodes_f, sensors_f, limit, offset), ctx)

QuerySpecInit == ExportIdle /\ MetaIdle /\ QueryInit /\ ApiIdle

SpecQuery == QuerySpecInit /\ [][QueryNext]_vars

(***************************************************************************)
(* Properties of the export pipeline                                       *)
(***************************************************************************)
\* the part rows committed for a ticket
Parts(t) == {d \in dumps : d.request = t /\ d.part > 0}
\* the summary rows committed for a ticket
Summaries(t) == {d \in dumps : d.request = t /\ d.part = 0}
\* every committed row of a ticket
RowsOf(ds, t) == {d \in ds : d.request = t}
\* the highest part number committed for a ticket, 0 when there is none
LastPart(t) ==
    IF Parts(t) = {} THEN 0
    ELSE CHOOSE n \in {d.part : d \in Parts(t)} :
            \A d \in Parts(t) : d.part <= n
\* the run is inside a store_chunk call
InStoreChunk(t) ==
    pc[t] \in {"add", "commit", "get_status", "set_status", "set_flag"}

\* C1: a run over exactly k * chunk_size rows (k >= 1) that finishes has
\* persisted exactly k parts of chunk_size rows each and left the progress
\* record at {done: k, total: k}.
C1_ExactMultiple ==
    \A t \in Tickets :
        (pc[t] = "done" /\ row_count[t] >= 1 /\ row_count[t] % chunk_size = 0)
        => LET k == row_count[t] \div chunk_size IN
            /\ Cardinality(Parts(t)) = k
            /\ \A d \in Parts(t) : Len(d.rows) = chunk_size
            /\ status[t].has_progress
            /\ status[t].done = k
            /\ status[t].total = k

\* C2: a run over exactly chunk_size + 1 rows that finishes has persisted
\* exactly two parts: part 1 with chunk_size rows and part 2 with one row.
C2_Boundary ==
    \A t \in Tickets :
        (pc[t] = "done" /\ row_count[t] = chunk_size + 1)
        => /\ {d.part : d \in Parts(t)} = {1, 2}
           /\ Cardinality(Parts(t)) = 2
           /\ \A d \in Parts(t) :
                Len(d.rows) = IF d.part = 1 THEN chunk_size ELSE 1

\* C3: a run over n >= 1 rows that finishes without a persistence failure is
\* complete: the number of parts equals the declared total ceil(n / chunk_size)
\* carried by every part row and by the summary, and the last progress record
\* has done = total.
C3_Complete ==
    \A t \in Tickets :
        (pc[t] = "done" /\ row_count[t] >= 1)
        => /\ Cardinality(Parts(t)) = chunk_count[t]
           /\ chunk_count[t] = CeilDiv(row_count[t], chunk_size)
           /\ \A d \in RowsOf(dumps, t) : d.total = chunk_count[t]
           /\ status[t].has_progress
           /\ status[t].done = status[t].total

\* C4: outside a store_chunk call (it returned or raised), the part row of a
\* chunk is committed exactly when the progress record shows that chunk:
\* the last committed part and the reported done value agree.
C4_PartAndProgressTogether ==
    \A t \in Tickets :
        ~InStoreChunk(t)
        => IF Parts(t) = {}
              THEN ~status[t].has_progress
              ELSE status[t].has_progress /\ status[t].done = LastPart(t)

\* C5: when session.commit fails for a part or for the summary record, the
\* session has been rolled back when the error leaves the run, the run is
\* ended by that error, the progress record is what it was before the call,
\* and from then on the run persists no further row.
C5_FailedCommitRollsBackAndStops ==
    [][\A t \in Tickets :
          err'[t] \in {"commit", "summary_commit"}
          => /\ pc'[t] = "failed"
             /\ rollbacks'[t] >= 1
             /\ pending'[t] = {}
             /\ status'[t] = status[t]
             /\ RowsOf(dumps', t) = RowsOf(dumps, t)]_vars

\* a commit of the second or a later part failed after an earlier part had
\* been persisted and reported
C5_Witness ==
    \E t \in Tickets :
        /\ err[t] = "commit"
        /\ chunk_number[t] >= 2
        /\ Parts(t) # {}
        /\ status[t].done = chunk_number[t] - 1

\* C6: a run that was ended by an error never leaves the status record at the
\* partial progress {done: j, total: n}, j < n, without a failure indication.
C6_StatusReflectsFailure ==
    \A t \in Tickets :
        pc[t] = "failed"
        => ~(/\ status[t].has_progress
             /\ status[t].done < status[t].total
             /\ ~status[t].error)

(***************************************************************************)
(* Properties of the metadata filter chain                                 *)
(***************************************************************************)
\* the level above a level
UpperLevel(meta_level) ==
    IF meta_level = "nodes" THEN "network"
    ELSE IF meta_level = "sensors" THEN "nodes"
    ELSE "sensors"
\* the filter the caller gave for a level
FilterOf(req, meta_level) ==
    IF meta_level = "network" THEN req.network
    ELSE IF meta_level = "nodes" THEN req.nodes
    ELSE IF meta_level = "sensors" THEN req.sensors
    ELSE req.features
\* the nodes that belong to the named networks
NodesIn(names) == {n \in nodes : n.network \in names}
\* the features referenced by the sensors deployed on some nodes
FeaturesObservedOn(ns) ==
    {SplitDot0(p) :
        p \in UNION {s.observed_properties :
                        s \in UNION {SensorsOfNode(n) : n \in ns}}}
\* the networks the network filter of a call selects
NetworksSelected(req) ==
    IF req.network = None THEN networks
    ELSE {net \in networks : net.name \in req.network}

\* C7: metadata(target='nodes', network=N) with no node filter and no
\* geometry, for a network N that has nodes, returns exactly the nodes whose
\* network is N.
C7_NodesOfNetworkOnly ==
    \A N \in NetworkNames :
        (/\ metadata_args.target = "nodes"
         /\ metadata_args.network = {N}
         /\ metadata_args.nodes = None
         /\ metadata_args.geom = None
         /\ NodesIn({N}) # {})
        => /\ result.kind = "records"
           /\ result.recs = NodesIn({N})

\* C8: when the caller gives filter values for the level nodes, sensors or
\* features, every record resolved at that level has its id/name both among
\* the filter values and among the valid values inherited from the records
\* resolved at the level above.
C8_FilterWithinInherited ==
    \A L \in {"nodes", "sensors", "features"} :
        (/\ metadata_args.target = L
         /\ FilterOf(metadata_args, L) \notin {None, EmptyList}
         /\ result.kind = "records")
        => LET upper ==
                 metadata([metadata_args EXCEPT !.target = UpperLevel(L)]).recs
           IN  \A r \in result.recs :
                 /\ KeyOf(L, r) \in FilterOf(metadata_args, L)
                 /\ KeyOf(L, r) \in ValidValues(L, upper)

\* C9: resolving features of network N with a node filter and no sensor,
\* feature or geometry filter returns exactly the features named before the
\* first "." in the observed_properties of the sensors deployed on the
\* selected nodes of N, and no feature of any other node.
C9_FeaturesOfSelectedNodes ==
    \A N \in NetworkNames :
        LET selected ==
              {n \in NodesIn({N}) : n.id \in metadata_args.nodes}
        IN  (/\ metadata_args.target = "features"
             /\ metadata_args.network = {N}
             /\ metadata_args.nodes \notin {None, EmptyList}
             /\ metadata_args.sensors = None
             /\ metadata_args.features = None
             /\ metadata_args.geom = None
             /\ FeaturesObservedOn(selected) # {})
            => /\ result.kind = "records"
               /\ {f.name : f \in result.recs} = FeaturesObservedOn(selected)

\* a call at or below the nodes level whose node filter matches no node
NodeFilterMatchesNothing ==
    /\ metadata_args.target \in {"nodes", "sensors", "features"}
    /\ metadata_args.nodes \notin {None, EmptyList}
    /\ \A n \in nodes : n.id \notin metadata_args.nodes
\* the call ended in an empty-resolution error, returned or raised
EmptyResolutionError == result.kind \in {"bad_request", "ValueError"}

\* C10 as stated: a node filter that matches no node yields an
\* empty-resolution error whose message names the level 'nodes' and the
\* filter values.
C10_ErrorNamesNodesAndValue ==
    NodeFilterMatchesNothing
    => /\ EmptyResolutionError
       /\ result.msg.level = "nodes"
       /\ metadata_args.nodes \subseteq result.msg.values

\* C10, amended: metadata() never returns an empty list as a success, and a
\* node filter that matches no node, once the network level has resolved,
\* yields an empty-resolution error (bad_request in a request, ValueError
\* outside of one) whose message names the upstream level 'network', the
\* networks resolved there and the target; it does not carry the filter value.
C10_ErrorNamesUpstreamLevel ==
    /\ result.kind = "records" => result.recs # {}
    /\ (NodeFilterMatchesNothing /\ NetworksSelected(metadata_args) # {})
       => /\ result.kind = IF metadata_args.ctx = "request"
                              THEN "bad_request" ELSE "ValueError"
          /\ result.msg.level = "network"
          /\ result.msg.values =
                {net.name : net \in NetworksSelected(metadata_args)}
          /\ result.msg.target = metadata_args.target
          /\ metadata_args.nodes \cap result.msg.values = {}

\* the node filter 'zzz' was answered with a bad request for the target nodes
C10_Witness ==
    /\ NodeFilterMatchesNothing
    /\ metadata_args.nodes = {"zzz"}
    /\ metadata_args.target = "nodes"
    /\ metadata_args.network = {"array_of_things"}
    /\ result.kind = "bad_request"

(***************************************************************************)
(* Further properties of the export pipeline                               *)
(***************************************************************************)
\* C11: outside a store_chunk call, every part persisted for a ticket has had
\* its refresh of '<ticket>_suppresscleanup' with TTL 10800: there are as many
\* completed set_flag calls as committed parts, and the flag is set.
C11_FlagRefreshedPerPart ==
    \A t \in Tickets :
        ~InStoreChunk(t)
        => /\ flag_calls[t] = Cardinality(Parts(t))
           /\ Parts(t) # {} => flag[t] = [set |-> TRUE, ttl |-> SuppressTTL]

\* the part numbers committed for a ticket
PartNumbers(ds, t) == {d.part : d \in {e \in RowsOf(ds, t) : e.part > 0}}

\* C12: in every step of a run the committed parts are numbered 1, 2, ..., n
\* with no gap and no repeat, the reported done value does not decrease, and
\* a part N + 1 is committed only when the progress record shows done = N.
C12_SequentialParts ==
    [][\A t \in Tickets :
          LET before == PartNumbers(dumps, t)
              after == PartNumbers(dumps', t)
          IN  /\ after = 1..Cardinality(after)
              /\ Cardinality({d \in RowsOf(dumps', t) : d.part > 0})
                    = Cardinality(after)
              /\ status'[t].done >= status[t].done
              /\ \A n \in after \ before :
                    n > 1 => (status[t].has_progress /\ status[t].done = n - 1)
       ]_vars

\* two parts were committed and reported, one after the other
C12_Witness ==
    \E t \in Tickets :
        /\ PartNumbers(dumps, t) = {1, 2}
        /\ status[t].has_progress
        /\ status[t].done = 2

\* the rows of the n-th part of a ticket
PartRows(t, n) == (CHOOSE d \in Parts(t) : d.part = n).rows
RECURSIVE RowsInParts(_, _)
\* the number of rows in parts 1..n of a ticket
RowsInParts(t, n) ==
    IF n = 0 THEN 0 ELSE Len(PartRows(t, n)) + RowsInParts(t, n - 1)
\* the feature names of the rows exported for a ticket
FeaturesExported(t) ==
    UNION {{d.rows[i] : i \in 1..Len(d.rows)} : d \in Parts(t)}

\* C14: a summary record exists only once every row has been persisted in a
\* part, and its feature list is exactly the set of feature names present in
\* the exported rows; a table that contributed no row is not listed.
C14_SummaryListsExportedFeatures ==
    \A t \in Tickets :
        \A d \in Summaries(t) :
            /\ RowsInParts(t, LastPart(t)) = row_count[t]
            /\ d.meta = FeaturesExported(t)

\* C19: with the same rows in the count pass and in the streaming pass, a
\* reported progress always has 1 <= done <= total, and no part, committed or
\* added to the session, is numbered above the declared total chunk_count.
C19_PartsWithinDeclaredTotal ==
    \A t \in Tickets :
        /\ status[t].has_progress
           => /\ 1 <= status[t].done
              /\ status[t].done <= status[t].total
        /\ \A d \in Parts(t) \cup {e \in pending[t] : e.part > 0} :
              /\ d.part <= chunk_count[t]
              /\ d.total = chunk_count[t]

\* the last declared part of a run of several parts was committed and reported
C19_Witness ==
    \E t \in Tickets :
        /\ chunk_count[t] >= 2
        /\ LastPart(t) = chunk_count[t]
        /\ status[t].has_progress
        /\ status[t].done = status[t].total

\* the step is one of the run of ticket a
StepOf(a) == <<pc'[a], ri'[a]>> # <<pc[a], ri[a]>>

\* C13: under any interleaving of the steps of two jobs, a step of job A
\* leaves the committed rows, the session, the status and the flag of job B
\* as they were, and what is stored for a job carries only that job's own
\* chunk numbers and total.
C13_JobsIsolated ==
    [][\A a \in Tickets :
          /\ StepOf(a)
             => \A b \in Tickets \ {a} :
                   /\ RowsOf(dumps', b) = RowsOf(dumps, b)
                   /\ pending'[b] = pending[b]
                   /\ status'[b] = status[b]
                   /\ flag'[b] = flag[b]
                   /\ flag_calls'[b] = flag_calls[b]
          /\ \A d \in RowsOf(dumps', a) :
                /\ d.total = chunk_count'[a]
                /\ d.part <= chunk_number'[a]
          /\ status'[a].has_progress
             => /\ status'[a].total = chunk_count'[a]
                /\ status'[a].done \in PartNumbers(dumps', a)
          /\ flag_calls'[a] <= Cardinality(PartNumbers(dumps', a))
       ]_vars

\* one job is inside store_chunk, past its commit, while the other job has
\* parts and progress of its own
C13_Witness ==
    \E a, b \in Tickets :
        /\ a # b
        /\ pc[a] \in {"get_status", "set_status", "set_flag"}
        /\ PartNumbers(dumps, a) # {}
        /\ PartNumbers(dumps, b) # {}
        /\ status[b].has_progress

(***************************************************************************)
(* Properties of observation_query                                         *)
(***************************************************************************)
\* a query was built with no limit and no offset applied
Uncapped == obs_query.limit = NoneV /\ obs_query.offset = NoneV

\* C15: every row the built query returns has start <= datetime < end; a row
\* with datetime = end is never returned, and a row with datetime = start of
\* a non-empty window passes the time filter: it is returned whenever the
\* node and sensor filters admit it and no limit or offset is applied.
C15_HalfOpenWindow ==
    obs_query.kind = "query"
    => LET given == obs_query.start.t # "none" /\ obs_query.end.t # "none"
           start == ValueOf(obs_query.start)
           end == ValueOf(obs_query.end)
       IN  /\ \A r \in fetched :
                given /\ start <= r.datetime /\ r.datetime < end
           /\ \A r \in table_rows :
                (obs_query.end.t # "none" /\ r.datetime = end)
                => r \notin fetched
           /\ \A r \in table_rows :
                (/\ given
                 /\ r.datetime = start
                 /\ start < end
                 /\ Uncapped
                 /\ obs_query.nodes # None
                    => Lower(r.node_id) \in obs_query.nodes
                 /\ obs_query.sensors # None
                    => Lower(r.sensor) \in obs_query.sensors)
                => r \in fetched

\* the table holds a row at the start and a row at the end of the window; the
\* first was returned, the second was not
C15_Witness ==
    /\ obs_query.kind = "query"
    /\ obs_query.start.t # "none" /\ obs_query.end.t # "none"
    /\ ValueOf(obs_query.start) < ValueOf(obs_query.end)
    /\ \E r \in fetched : r.datetime = ValueOf(obs_query.start)
    /\ \E r \in table_rows \ fetched : r.datetime = ValueOf(obs_query.end)

\* C17: once the features have resolved, the query is built for every
\* argument record, and it carries a limit (an offset) exactly when the caller
\* supplied one, with the value supplied, 0 included; a missing value leaves
\* the query without one.
C17_LimitOnlyIfSupplied ==
    (obs_query.kind # "none" /\ result.kind = "records")
    => /\ obs_query.kind = "query"
       /\ obs_query.limit = Get(obs_args, "limit")
       /\ obs_query.offset = Get(obs_args, "offset")

(***************************************************************************)
(* Properties of the endpoints                                             *)
(***************************************************************************)
\* C16: in every endpoint a non-empty validation error list yields a client
\* error response and nothing of the core runs: no metadata resolution, no
\* observation query, no job enqueue, no aggregate function call; a function
\* name outside the registry is a validation error of every request that
\* reaches validation and never reaches the core, and the aggregation engine
\* is only ever invoked with a function of the registry.
C16_ErrorsStopTheCore ==
    /\ validated.errors # {}
       => /\ api_response = BadRequest
          /\ core_calls = {}
          /\ metadata_args = NoRequest
    /\ (/\ api_call.endpoint = "aggregations"
        /\ api_call.function.t # "none"
        /\ Lower(Concat(api_call.function.v)) \notin AggregateFns)
       => /\ core_calls = {}
          /\ api_response # Exception
             => "function" \in validated.errors /\ api_response = BadRequest
    /\ \A c \in core_calls :
          c.component = "aggregate" => c.arg \in AggregateFns

\* an aggregation with function "median", otherwise valid, was rejected
C16_Witness ==
    /\ api_call.endpoint = "aggregations"
    /\ IsString(api_call.function)
    /\ Concat(api_call.function.v) = "median"
    /\ validated.errors = {"function"}
    /\ api_response = BadRequest
    /\ core_calls = {}

\* the stored key the path parameter of a level endpoint names
StoredKeys(endpoint) ==
    CASE endpoint = "nodes" -> NodeIndex
      [] endpoint = "sensors" -> SensorIndex
      [] OTHER -> FeatureIndex

\* C18: identity filters are lower-cased before they are compared with the
\* stored ids and names: a node, sensor or feature endpoint called for
\* array_of_things with a case variant X of a stored key x of that network,
\* which passes validation, answers with the record x and not with an empty
\* resolution error.
C18_FiltersLowerCased ==
    (/\ api_call.endpoint \in {"nodes", "sensors", "features"}
     /\ Concat(api_call.network.v) = "array_of_things"
     /\ api_call.ident.t # "none"
     /\ api_call.geom.t = "none"
     /\ validated.errors = {}
     /\ Lower(Concat(api_call.ident.v)) \in StoredKeys(api_call.endpoint))
    => /\ api_response.kind = "ok"
       /\ \E r \in result.recs :
             KeyOf(api_call.endpoint, r) = Lower(Concat(api_call.ident.v))

====
